---------------------------- MODULE Spec2Model ----------------------------
(***************************************************************************)
(* Model of backend/server.py: the four proxy-link decoders with the       *)
(* shared label heuristic (parse_config_name, parse_ss, parse_vless,       *)
(* parse_vmess, parse_trojan, parse_config), the TCP probe                 *)
(* (test_tcp_connection) and the bounded-concurrency batch (test_batch).   *)
(*                                                                         *)
(* Text is a sequence of one-character strings.  A byte that is no         *)
(* printable ASCII character is written "xHH" (a control character), and   *)
(* a decoded non-ASCII code point is the unit NonAscii.                    *)
(***************************************************************************)
EXTENDS Integers, Sequences, FiniteSets, TLC

VARIABLES
    \* ---- decoders (ParseSpec) ----
    task,       \* which entry point is exercised: "dispatch" | "decoders" | "label" | "idle"
    inp,        \* the input text
    shape,      \* how the input text was assembled (its parts), for reference
    phase,      \* "in" before the call, "out" after it
    out,        \* parse_config's result, or parse_config_name's
    outV,       \* parse_vless("vless://" + inp)
    outT,       \* parse_trojan("trojan://" + inp)
    \* ---- one probe (ProbeSpec) ----
    ppc,        \* position inside test_tcp_connection
    pserver,    \* the server argument
    phost,      \* clean_server
    penv,       \* what the network and the transport will do for this probe
    pstart,     \* time.time() at line 260
    pnow,       \* the clock
    platency,   \* latency computed at line 265
    pret,       \* the value returned (or the exception that escaped)
    \* ---- one batch (Spec, LiveSpec) ----
    configs,    \* req.configs
    bpc,        \* position of test_batch: "idle" | "joining" | "returned" | "raised"
    tstate,     \* per task: "new" | "waiting" | "connecting" | "done" | "failed"
    tres,       \* per task: the TestResult it returned (or NoResult)
    sem,        \* the semaphore's value
    nstarted,   \* how many tasks have run their first step
    results,    \* the list test_batch returns
    db          \* db.test_results: the saved results, one per config_id

parseVars == <<task, inp, shape, phase, out, outV, outT>>
probeVars == <<ppc, pserver, phost, penv, pstart, pnow, platency, pret>>
batchVars == <<configs, bpc, tstate, tres, sem, nstarted, results, db>>
vars == <<parseVars, probeVars, batchVars>>

---------------------------------------------------------------------------
(* Characters *)

Chr ==
   <<
      "x00", "x01", "x02", "x03", "x04", "x05", "x06", "x07", "x08", "x09", "x0A", "x0B", "x0C", "x0D", "x0E", "x0F",
      "x10", "x11", "x12", "x13", "x14", "x15", "x16", "x17", "x18", "x19", "x1A", "x1B", "x1C", "x1D", "x1E", "x1F",
      " ", "!", "\"", "#", "$", "%", "&", "'", "(", ")", "*", "+", ",", "-", ".", "/",
      "0", "1", "2", "3", "4", "5", "6", "7", "8", "9", ":", ";", "<", "=", ">", "?",
      "@", "A", "B", "C", "D", "E", "F", "G", "H", "I", "J", "K", "L", "M", "N", "O",
      "P", "Q", "R", "S", "T", "U", "V", "W", "X", "Y", "Z", "[", "\\", "]", "^", "_",
      "x60", "a", "b", "c", "d", "e", "f", "g", "h", "i", "j", "k", "l", "m", "n", "o",
      "p", "q", "r", "s", "t", "u", "v", "w", "x", "y", "z", "{", "|", "}", "~", "x7F"
   >>

B64Alphabet ==
   <<
      "A", "B", "C", "D", "E", "F", "G", "H", "I", "J", "K", "L", "M", "N", "O", "P",
      "Q", "R", "S", "T", "U", "V", "W", "X", "Y", "Z", "a", "b", "c", "d", "e", "f",
      "g", "h", "i", "j", "k", "l", "m", "n", "o", "p", "q", "r", "s", "t", "u", "v",
      "w", "x", "y", "z", "0", "1", "2", "3", "4", "5", "6", "7", "8", "9", "+", "/"
   >>

\* A decoded code point above U+007F (which one does not matter to the code).
NonAscii == "u0080+"
\* U+FFFD, what errors="replace" puts for an undecodable byte.
Replacement == "uFFFD"

Digits == <<"0", "1", "2", "3", "4", "5", "6", "7", "8", "9">>
DigitSet == {Digits[i] : i \in 1..10}
DigitVal(c) == (CHOOSE i \in 1..10 : Digits[i] = c) - 1

\* str.isspace() over ASCII: what str.strip() removes.
Whitespace == {" ", "x09", "x0A", "x0B", "x0C", "x0D", "x1C", "x1D", "x1E", "x1F"}

\* chr(b) for a byte below 128.
ChrOf(b) == Chr[b + 1]

---------------------------------------------------------------------------
(* Python's str operations, on sequences of characters *)

SetMin(S) == CHOOSE x \in S : \A y \in S : x <= y
SetMax(S) == CHOOSE x \in S : \A y \in S : x >= y

\* s[a-1:b] (1-based, both ends included), clamped to the text as Python's
\* slices are.
Slice(s, a, b) ==
    LET lo == IF a < 1 THEN 1 ELSE a
        hi == IF b > Len(s) THEN Len(s) ELSE b
    IN  IF lo > hi THEN <<>> ELSE SubSeq(s, lo, hi)

\* s[i:] with i counted from 0.
From(s, i) == SubSeq(s, i + 1, Len(s))

Occurrences(s, sub) ==
    {i \in 1..(Len(s) - Len(sub) + 1) : SubSeq(s, i, i + Len(sub) - 1) = sub}

\* sub in s
Contains(s, sub) == Occurrences(s, sub) # {}

\* s.startswith(p)
StartsWith(s, p) == Len(s) >= Len(p) /\ SubSeq(s, 1, Len(p)) = p

\* s.split(sep, 1): <<s>> when sep does not occur.
SplitFirst(s, sep) ==
    IF Contains(s, sep)
    THEN LET i == SetMin(Occurrences(s, sep))
         IN  <<SubSeq(s, 1, i - 1), SubSeq(s, i + Len(sep), Len(s))>>
    ELSE <<s>>

\* s.rsplit(sep, 1): <<s>> when sep does not occur.
RSplitLast(s, sep) ==
    IF Contains(s, sep)
    THEN LET i == SetMax(Occurrences(s, sep))
         IN  <<SubSeq(s, 1, i - 1), SubSeq(s, i + Len(sep), Len(s))>>
    ELSE <<s>>

\* s.lstrip(chars), s.rstrip(chars), s.strip(chars)
RECURSIVE LStripSet(_, _)
LStripSet(s, cs) ==
    IF s # <<>> /\ s[1] \in cs THEN LStripSet(Tail(s), cs) ELSE s

RECURSIVE RStripSet(_, _)
RStripSet(s, cs) ==
    IF s # <<>> /\ s[Len(s)] \in cs THEN RStripSet(SubSeq(s, 1, Len(s) - 1), cs) ELSE s

StripSet(s, cs) == RStripSet(LStripSet(s, cs), cs)

\* s.strip()
Strip(s) == StripSet(s, Whitespace)

\* s.replace(old, ""): left to right, non-overlapping.
RECURSIVE Remove(_, _)
Remove(s, old) ==
    IF Len(s) < Len(old) \/ s = <<>> THEN s
    ELSE IF SubSeq(s, 1, Len(old)) = old THEN Remove(From(s, Len(old)), old)
    ELSE <<s[1]>> \o Remove(Tail(s), old)

\* s.lower() over ASCII
LowerChar(c) ==
    IF \E i \in 66..91 : Chr[i] = c
    THEN Chr[(CHOOSE i \in 66..91 : Chr[i] = c) + 32]
    ELSE c
Lower(s) == [i \in 1..Len(s) |-> LowerChar(s[i])]

NoInt == [ok |-> FALSE, val |-> 0]

RECURSIVE DigitsValue(_, _)
\* The value of a digit string that may hold single underscores between digits.
DigitsValue(s, acc) ==
    IF s = <<>> THEN acc
    ELSE IF s[1] = "_" THEN DigitsValue(Tail(s), acc)
    ELSE DigitsValue(Tail(s), acc * 10 + DigitVal(s[1]))

\* Decimal digits with single underscores between them.
IsDigitString(d) ==
    /\ d # <<>>
    /\ \A i \in 1..Len(d) : d[i] \in DigitSet \cup {"_"}
    /\ d[1] # "_" /\ d[Len(d)] # "_"
    /\ \A i \in 1..(Len(d) - 1) : ~(d[i] = "_" /\ d[i + 1] = "_")

SignedInt(negative, d) ==
    IF ~IsDigitString(d) THEN NoInt
    ELSE [ok |-> TRUE, val |-> IF negative THEN 0 - DigitsValue(d, 0)
                               ELSE DigitsValue(d, 0)]

IntOfStripped(t) ==
    IF t # <<>> /\ t[1] \in {"+", "-"} THEN SignedInt(t[1] = "-", Tail(t))
    ELSE SignedInt(FALSE, t)

\* int(s) for a str: surrounding whitespace, an optional sign, decimal digits
\* with single underscores between them; anything else raises ValueError
\* (ok = FALSE).
PyInt(s) == IntOfStripped(Strip(s))

---------------------------------------------------------------------------
(* Bytes: percent-decoding, base64, UTF-8 *)

HexDigits == <<"0", "1", "2", "3", "4", "5", "6", "7", "8", "9",
               "a", "b", "c", "d", "e", "f", "A", "B", "C", "D", "E", "F">>
IsHex(c) == \E i \in 1..22 : HexDigits[i] = c
HexIndex(i) == IF i <= 16 THEN i - 1 ELSE i - 7
HexVal(c) == HexIndex(CHOOSE j \in 1..22 : HexDigits[j] = c)

\* ord(c) of an ASCII character.
Ord(c) == (CHOOSE i \in 1..128 : Chr[i] = c) - 1

RECURSIVE UnquoteToBytes(_)
\* urllib.parse.unquote_to_bytes: %XX with two hex digits becomes the byte,
\* every other character stays as it is.  unquote hands only the ASCII runs
\* of its argument to it; a character outside ASCII is carried through here
\* as the pseudo byte 256 (257 for U+FFFD).
UnquoteToBytes(s) ==
    IF s = <<>> THEN <<>>
    ELSE IF s[1] = "%" /\ Len(s) >= 3 /\ IsHex(s[2]) /\ IsHex(s[3])
    THEN <<16 * HexVal(s[2]) + HexVal(s[3])>> \o UnquoteToBytes(From(s, 3))
    ELSE IF s[1] \in {NonAscii, Replacement}
    THEN <<IF s[1] = NonAscii THEN 256 ELSE 257>> \o UnquoteToBytes(Tail(s))
    ELSE <<Ord(s[1])>> \o UnquoteToBytes(Tail(s))

IsCont(bs, i) == i <= Len(bs) /\ bs[i] >= 128 /\ bs[i] <= 191

\* Whether bs[i] may follow the lead byte b in well-formed UTF-8.
SecondOk(b, bs, i) ==
    /\ i <= Len(bs)
    /\ bs[i] >= (IF b = 224 THEN 160 ELSE IF b = 240 THEN 144 ELSE 128)
    /\ bs[i] <= (IF b = 237 THEN 159 ELSE IF b = 244 THEN 143 ELSE 191)

\* The sequence starting at bs[1]: how many bytes it takes and whether they
\* are a well-formed code point (an ill-formed one takes its maximal subpart).
Utf8Unit(bs) ==
    IF bs[1] < 128 \/ bs[1] >= 256 THEN [n |-> 1, ok |-> TRUE]
    ELSE IF bs[1] >= 194 /\ bs[1] <= 223
    THEN IF IsCont(bs, 2) THEN [n |-> 2, ok |-> TRUE] ELSE [n |-> 1, ok |-> FALSE]
    ELSE IF bs[1] >= 224 /\ bs[1] <= 239
    THEN IF ~SecondOk(bs[1], bs, 2) THEN [n |-> 1, ok |-> FALSE]
         ELSE IF ~IsCont(bs, 3) THEN [n |-> 2, ok |-> FALSE]
         ELSE [n |-> 3, ok |-> TRUE]
    ELSE IF bs[1] >= 240 /\ bs[1] <= 244
    THEN IF ~SecondOk(bs[1], bs, 2) THEN [n |-> 1, ok |-> FALSE]
         ELSE IF ~IsCont(bs, 3) THEN [n |-> 2, ok |-> FALSE]
         ELSE IF ~IsCont(bs, 4) THEN [n |-> 3, ok |-> FALSE]
         ELSE [n |-> 4, ok |-> TRUE]
    ELSE [n |-> 1, ok |-> FALSE]

\* The text one unit decodes to.
Utf8Char(b, ok, errors) ==
    IF ok
    THEN (IF b < 128 THEN <<ChrOf(b)>>
          ELSE IF b = 257 THEN <<Replacement>> ELSE <<NonAscii>>)
    ELSE IF errors = "replace" THEN <<Replacement>> ELSE <<>>

RECURSIVE Utf8Decode(_, _)
RECURSIVE Utf8Rest(_, _, _)
\* bytes.decode("utf-8", errors): errors is "replace" or "ignore".
Utf8Decode(bs, errors) ==
    IF bs = <<>> THEN <<>> ELSE Utf8Rest(bs, errors, Utf8Unit(bs))
Utf8Rest(bs, errors, u) ==
    Utf8Char(bs[1], u.ok, errors) \o Utf8Decode(From(bs, u.n), errors)

\* urllib.parse.unquote on ASCII text (line 67).
Unquote(s) == Utf8Decode(UnquoteToBytes(s), "replace")

IsB64(c) == \E i \in 1..64 : B64Alphabet[i] = c
B64Val(c) == (CHOOSE i \in 1..64 : B64Alphabet[i] = c) - 1

NoBytes == [ok |-> FALSE, bytes |-> <<>>]

\* binascii.a2b_base64 in its default (non-strict) mode, the loop written
\* in closed form.  Characters outside the alphabet are skipped; quad_pos
\* is the number of alphabet characters read so far modulo 4; a "=" read at
\* quad_pos >= 2 counts as a pad, and the input ends at the pad that
\* completes the quad; input that runs out inside a quad raises
\* binascii.Error.
B64QuadPos(s, p) == Cardinality({q \in 1..(p - 1) : IsB64(s[q])}) % 4

B64Pads(s, p) ==
    Cardinality({q \in 1..p : s[q] = "=" /\ \A r \in q..p : ~IsB64(s[r])})

B64Stops(s) ==
    {p \in 1..Len(s) :
        s[p] = "=" /\ B64QuadPos(s, p) >= 2 /\ B64QuadPos(s, p) + B64Pads(s, p) >= 4}

\* The byte j of the output, v being the values of the characters read.
B64Byte(v, j, g) ==
    CASE (j - 1) % 3 = 0 -> v[g + 1] * 4 + v[g + 2] \div 16
      [] (j - 1) % 3 = 1 -> (v[g + 2] % 16) * 16 + v[g + 3] \div 4
      [] OTHER -> (v[g + 3] % 4) * 64 + v[g + 4]

B64Bytes(v, quad, padded) ==
    IF ~padded /\ quad # 0 THEN NoBytes
    ELSE [ok |-> TRUE,
          bytes |-> [j \in 1..(3 * (Len(v) \div 4) + (IF quad >= 2 THEN quad - 1 ELSE 0))
                       |-> B64Byte(v, j, 4 * ((j - 1) \div 3))]]

B64Values(data, padded) ==
    B64Bytes([k \in 1..Len(data) |-> B64Val(data[k])], Len(data) % 4, padded)

B64Upto(s, stops) ==
    B64Values(SelectSeq(SubSeq(s, 1, IF stops = {} THEN Len(s) ELSE SetMin(stops)),
                        IsB64),
              stops # {})

B64Scan(s) == B64Upto(s, B64Stops(s))

\* base64.b64decode(s) for a str: non-ASCII text raises ValueError.
B64Decode(s) ==
    IF \E i \in 1..Len(s) : ~(\E j \in 1..128 : Chr[j] = s[i]) THEN NoBytes
    ELSE B64Scan(s)

---------------------------------------------------------------------------
(* parse_config_name *)

\* Python's None where a str is optional.
None == <<"None">>

TelegramTags == {<<"t", "e", "l", "e", "g", "r", "a", "m">>,
                 <<"t", "e", "l", "@">>,
                 <<"t", ".", "m", "e", "/">>}

Meta(name, country, telegram_channel, is_telegram) ==
    [name |-> name, country |-> country,
     telegram_channel |-> telegram_channel, is_telegram |-> is_telegram]

\* Line 93: at_part.split("::")[0].split(":")[0].strip()
ChannelOf(at_part) ==
    Strip(SplitFirst(SplitFirst(at_part, <<":", ":">>)[1], <<":">>)[1])

\* Lines 83-95: the cascade on clean_name, and the return.
Classify(name, country, clean_name) ==
    IF StartsWith(clean_name, <<"@">>)
    THEN Meta(name, country, clean_name, TRUE)
    ELSE IF \E tag \in TelegramTags : Contains(Lower(clean_name), tag)
    THEN Meta(name, country, clean_name, TRUE)
    ELSE IF Contains(clean_name, <<"@">>)
    THEN Meta(name, country,
              ChannelOf(From(clean_name,
                             SetMin(Occurrences(clean_name, <<"@">>)) - 1)),
              TRUE)
    ELSE Meta(name, country, None, FALSE)

\* Line 81: clean_name = name.strip()
CleanName(name, country) == Classify(name, country, Strip(name))

\* Lines 78-79.
StripMarkers(name, country) ==
    IF Contains(name, <<">", ">">>)
    THEN CleanName(Strip(Remove(name, <<">", ">">>)), country)
    ELSE CleanName(name, country)

\* Lines 74-76: parts = decoded.rsplit("::", 1)
SplitCountry(parts) == StripMarkers(Strip(parts[1]), Strip(parts[2]))

\* Lines 68-76.
NameOfDecoded(decoded) ==
    IF Contains(decoded, <<":", ":">>)
    THEN SplitCountry(RSplitLast(decoded, <<":", ":">>))
    ELSE StripMarkers(decoded, <<>>)

\* Lines 66-95.
parse_config_name(fragment) == NameOfDecoded(Unquote(fragment))

---------------------------------------------------------------------------
(* The decoders *)

\* A decoder returning None, and an exception leaving a function.
NoRecord == [protocol |-> "None"]
Raised == [protocol |-> "raised"]

\* The dict every decoder returns.
Labelled(protocol, server, port, m) ==
    [protocol |-> protocol,
     server |-> server,
     port |-> port,
     name |-> m.name,
     country |-> m.country,
     telegram_channel |-> m.telegram_channel,
     is_telegram |-> m.is_telegram]

\* The end of every decoder: int(port) having raised (ValueError) leaves the
\* try block, else the label is parsed and the dict built.
Record(protocol, server, port, label) ==
    IF ~port.ok THEN Raised
    ELSE Labelled(protocol, Strip(server), port.val, parse_config_name(label))

DefaultPort == [ok |-> TRUE, val |-> 443]

\* "rest, fragment = rest.split('#', 1)" when "#" is in rest.
BodyOf(rest) == SplitFirst(rest, <<"#">>)[1]
FragmentOf(rest) == IF Contains(rest, <<"#">>) THEN SplitFirst(rest, <<"#">>)[2] ELSE <<>>

\* A decoder without its except clause.
CatchNothing(r) == r

\* "try: ... except Exception: return None" around a decoder's body.
Catch(r) == IF r = Raised THEN NoRecord ELSE r

\* "server, port = server_part.rsplit(':', 1); port = int(port)"
SplitHostPort(protocol, sp, fragment) == Record(protocol, sp[1], PyInt(sp[2]), fragment)

\* Lines 154-157.
PortAfterBracket(port_part) ==
    IF StartsWith(port_part, <<":">>) THEN PyInt(From(port_part, 1)) ELSE DefaultPort

\* Lines 151-157: server_part.index("]") raises ValueError without a "]".
VlessBracket(server_part, fragment) ==
    IF ~Contains(server_part, <<"]">>) THEN Raised
    ELSE Record("vless",
                SubSeq(server_part, 1, SetMin(Occurrences(server_part, <<"]">>))),
                PortAfterBracket(From(server_part,
                                      SetMin(Occurrences(server_part, <<"]">>)))),
                fragment)

\* Lines 150-163.
VlessServer(server_part, fragment) ==
    IF StartsWith(server_part, <<"[">>) THEN VlessBracket(server_part, fragment)
    ELSE IF Contains(server_part, <<":">>)
    THEN SplitHostPort("vless", RSplitLast(server_part, <<":">>), fragment)
    ELSE Record("vless", server_part, DefaultPort, fragment)

\* Lines 146-165: the body of parse_vless after the fragment is split off.
VlessHost(rest, fragment) ==
    IF ~Contains(rest, <<"@">>) THEN NoRecord
    ELSE VlessServer(
             RStripSet(SplitFirst(SplitFirst(rest, <<"@">>)[2], <<"?">>)[1], {"/"}),
             fragment)

VlessRest(rest) == Catch(VlessHost(BodyOf(rest), FragmentOf(rest)))

\* Lines 139-180.
parse_vless(config_str) == VlessRest(From(config_str, 8))

\* Lines 220-225.
TrojanServer(server_part, fragment) ==
    IF Contains(server_part, <<":">>)
    THEN SplitHostPort("trojan", RSplitLast(server_part, <<":">>), fragment)
    ELSE Record("trojan", server_part, DefaultPort, fragment)

\* Lines 217-227: the body of parse_trojan after the fragment is split off.
TrojanHost(rest, fragment) ==
    IF ~Contains(rest, <<"@">>) THEN NoRecord
    ELSE TrojanServer(
             RStripSet(SplitFirst(SplitFirst(rest, <<"@">>)[2], <<"?">>)[1], {"/"}),
             fragment)

TrojanRest(rest) == Catch(TrojanHost(BodyOf(rest), FragmentOf(rest)))

\* Lines 210-242.
parse_trojan(config_str) == TrojanRest(From(config_str, 9))

\* Lines 107-111 and 116-120.
SsServer(server_part, fragment) ==
    IF Contains(server_part, <<":">>)
    THEN SplitHostPort("shadowsocks", RSplitLast(server_part, <<":">>), fragment)
    ELSE NoRecord

\* Lines 114-122: the text the whole body decoded to.
SsDecoded(decoded, fragment) ==
    IF ~Contains(decoded, <<"@">>) THEN NoRecord
    ELSE SsServer(RSplitLast(decoded, <<"@">>)[2], fragment)

\* Line 113: base64.b64decode(rest + "==").decode("utf-8", errors="ignore")
SsEncoded(raw, fragment) ==
    IF ~raw.ok THEN Raised
    ELSE SsDecoded(Utf8Decode(raw.bytes, "ignore"), fragment)

\* Lines 104-122: the body of parse_ss after the fragment is split off.
SsHost(rest, fragment) ==
    IF Contains(rest, <<"@">>)
    THEN SsServer(SplitFirst(RStripSet(RSplitLast(rest, <<"@">>)[2], {"/"}),
                             <<"?">>)[1],
                  fragment)
    ELSE SsEncoded(B64Decode(rest \o <<"=", "=">>), fragment)

SsRest(rest) == Catch(SsHost(BodyOf(rest), FragmentOf(rest)))

\* Lines 97-137.
parse_ss(config_str) == SsRest(From(config_str, 5))

---------------------------------------------------------------------------
(* json.loads, as far as parse_vmess depends on it: NaN and Infinity are   *)
(* left out.                                                               *)

\* A JSON value: t is its type, s the text of a string, n the value of a
\* number or bool, kv the members of an object as <<key, value>> pairs.
JVal(t, str, n, kv) == [t |-> t, s |-> str, n |-> n, kv |-> kv]
JNull == JVal("null", <<>>, 0, <<>>)
\* A parse: the value and the index after it.
JFail == [ok |-> FALSE, v |-> JNull, i |-> 0]
JOk(v, i) == [ok |-> TRUE, v |-> v, i |-> i]

JsonWs == {" ", "x09", "x0A", "x0D"}

RECURSIVE SkipWs(_, _)
SkipWs(s, i) == IF i <= Len(s) /\ s[i] \in JsonWs THEN SkipWs(s, i + 1) ELSE i

At(s, i, c) == i >= 1 /\ i <= Len(s) /\ s[i] = c
IsDigitAt(s, i) == i <= Len(s) /\ s[i] \in DigitSet

RECURSIVE DigitsEnd(_, _)
\* The index after the run of digits starting at i.
DigitsEnd(s, i) == IF IsDigitAt(s, i) THEN DigitsEnd(s, i + 1) ELSE i

RECURSIVE Pow10(_)
Pow10(k) == IF k = 0 THEN 1 ELSE 10 * Pow10(k - 1)

\* mant * 10^scale, truncated toward zero.
Scaled(mant, scale) ==
    IF scale >= 0 THEN mant * Pow10(scale) ELSE mant \div Pow10(0 - scale)

\* A number -?(0|[1-9]\d*)(\.\d+)?([eE][-+]?\d+)? read in stages; a..b-1 is
\* the integer part, b+1..c-1 the fraction (b = c: none), e..d-1 the
\* exponent's digits (e = d: none).  An int keeps its value; a float keeps
\* the integer int() truncates it to (computed on the decimal digits).
JNumValue(s, neg, a, b, c, e, d) ==
    JOk(JVal(IF b # c \/ e # d THEN "float" ELSE "int", <<>>,
             (IF neg THEN 0 - 1 ELSE 1)
             * Scaled(DigitsValue(SubSeq(s, a, b - 1) \o Slice(s, b + 1, c - 1), 0),
                      (IF e = d THEN 0
                       ELSE IF At(s, e - 1, "-") THEN 0 - DigitsValue(SubSeq(s, e, d - 1), 0)
                       ELSE DigitsValue(SubSeq(s, e, d - 1), 0))
                      - (IF b # c THEN c - b - 1 ELSE 0)),
             <<>>),
        d)

JNumExpDigits(s, neg, a, b, c, e) ==
    IF (At(s, c, "e") \/ At(s, c, "E")) /\ IsDigitAt(s, e)
    THEN JNumValue(s, neg, a, b, c, e, DigitsEnd(s, e))
    ELSE JNumValue(s, neg, a, b, c, c, c)

JNumExp(s, neg, a, b, c) ==
    JNumExpDigits(s, neg, a, b, c,
                  IF At(s, c + 1, "+") \/ At(s, c + 1, "-") THEN c + 2 ELSE c + 1)

JNumFrac(s, neg, a, b) ==
    IF b = a THEN JFail
    ELSE JNumExp(s, neg, a, b,
                 IF At(s, b, ".") /\ IsDigitAt(s, b + 1) THEN DigitsEnd(s, b + 1) ELSE b)

JNumInt(s, neg, a) ==
    JNumFrac(s, neg, a, IF At(s, a, "0") THEN a + 1 ELSE DigitsEnd(s, a))

JNum(s, i) == JNumInt(s, At(s, i, "-"), IF At(s, i, "-") THEN i + 1 ELSE i)

Escapes == <<"\"", "\\", "/", "b", "f", "n", "r", "t">>
EscapeChars == <<"\"", "\\", "/", "x08", "x0C", "x0A", "x0D", "x09">>

\* The character of \uXXXX.
CodePoint(cp) == IF cp < 128 THEN ChrOf(cp) ELSE NonAscii

RECURSIVE JStr(_, _, _)
\* The string whose opening quote is before s[i] (strict mode: a control
\* character inside a string is an error).
JStr(s, i, acc) ==
    IF i > Len(s) THEN JFail
    ELSE IF s[i] = "\"" THEN JOk(JVal("str", acc, 0, <<>>), i + 1)
    ELSE IF s[i] = "\\"
    THEN IF i + 1 > Len(s) THEN JFail
         ELSE IF \E k \in 1..8 : Escapes[k] = s[i + 1]
         THEN JStr(s, i + 2,
                   Append(acc, EscapeChars[CHOOSE k \in 1..8 : Escapes[k] = s[i + 1]]))
         ELSE IF s[i + 1] = "u" /\ i + 5 <= Len(s)
                 /\ \A k \in (i + 2)..(i + 5) : IsHex(s[k])
         THEN JStr(s, i + 6,
                   Append(acc, CodePoint(4096 * HexVal(s[i + 2]) + 256 * HexVal(s[i + 3])
                                         + 16 * HexVal(s[i + 4]) + HexVal(s[i + 5]))))
         ELSE JFail
    ELSE IF \E k \in 1..32 : Chr[k] = s[i] THEN JFail
    ELSE JStr(s, i + 1, Append(acc, s[i]))

Literals == <<<<"t", "r", "u", "e">>, <<"f", "a", "l", "s", "e">>, <<"n", "u", "l", "l">>>>
LiteralVals == <<JVal("bool", <<>>, 1, <<>>), JVal("bool", <<>>, 0, <<>>), JNull>>
IsLiteralAt(s, i, k) == Slice(s, i, i + Len(Literals[k]) - 1) = Literals[k]
JLiteral(k, i) == JOk(LiteralVals[k], i + Len(Literals[k]))

RECURSIVE JValue(_, _)
RECURSIVE JMembers(_, _, _)
RECURSIVE JMemberValue(_, _, _, _)
RECURSIVE JMemberEnd(_, _, _, _, _)
RECURSIVE JElems(_, _)
RECURSIVE JElemEnd(_, _, _)

\* After a member k: v, e being the index of the next token.
JMemberEnd(s, acc, k, v, e) ==
    IF At(s, e, "}")
    THEN JOk(JVal("obj", <<>>, 0, Append(acc, <<k.v.s, v.v>>)), e + 1)
    ELSE IF At(s, e, ",")
    THEN JMembers(s, SkipWs(s, e + 1), Append(acc, <<k.v.s, v.v>>))
    ELSE JFail

\* After a key k and its colon: the value v.
JMemberValue(s, acc, k, v) ==
    IF ~v.ok THEN JFail ELSE JMemberEnd(s, acc, k, v, SkipWs(s, v.i))

\* After a key k, c being the index of the next token.
JMemberColon(s, acc, k, c) ==
    IF ~At(s, c, ":") THEN JFail
    ELSE JMemberValue(s, acc, k, JValue(s, SkipWs(s, c + 1)))

JMemberKey(s, acc, k) ==
    IF ~k.ok THEN JFail ELSE JMemberColon(s, acc, k, SkipWs(s, k.i))

\* The members of an object from the key at s[i] on.
JMembers(s, i, acc) ==
    IF ~At(s, i, "\"") THEN JFail ELSE JMemberKey(s, acc, JStr(s, i + 1, <<>>))

\* After an element, e being the index of the next token.
JElemEnd(s, v, e) ==
    IF At(s, e, "]") THEN JOk(JVal("arr", <<>>, 0, <<>>), e + 1)
    ELSE IF At(s, e, ",") THEN JElems(s, SkipWs(s, e + 1))
    ELSE JFail

JElem(s, v) == IF ~v.ok THEN JFail ELSE JElemEnd(s, v, SkipWs(s, v.i))

\* The elements of an array from the value at s[i] on (their values are
\* not kept: the code never reads them).
JElems(s, i) == JElem(s, JValue(s, i))

JObject(s, j) ==
    IF At(s, j, "}") THEN JOk(JVal("obj", <<>>, 0, <<>>), j + 1)
    ELSE JMembers(s, j, <<>>)

JArray(s, j) ==
    IF At(s, j, "]") THEN JOk(JVal("arr", <<>>, 0, <<>>), j + 1)
    ELSE JElems(s, j)

JValue(s, i) ==
    IF i > Len(s) THEN JFail
    ELSE IF s[i] = "\"" THEN JStr(s, i + 1, <<>>)
    ELSE IF s[i] = "{" THEN JObject(s, SkipWs(s, i + 1))
    ELSE IF s[i] = "[" THEN JArray(s, SkipWs(s, i + 1))
    ELSE IF \E k \in 1..3 : IsLiteralAt(s, i, k)
    THEN JLiteral(CHOOSE k \in 1..3 : IsLiteralAt(s, i, k), i)
    ELSE IF s[i] = "-" \/ s[i] \in DigitSet THEN JNum(s, i)
    ELSE JFail

JWhole(s, r) == IF r.ok /\ SkipWs(s, r.i) = Len(s) + 1 THEN r ELSE JFail

\* json.loads(s): one value, whitespace around it, nothing after it.
JsonLoads(s) == JWhole(s, JValue(s, SkipWs(s, 1)))

JLast(obj, hits, default) == IF hits = {} THEN default ELSE obj.kv[SetMax(hits)][2]

\* dict.get(key, default): the last member with that key wins.
JGet(obj, key, default) ==
    JLast(obj, {k \in 1..Len(obj.kv) : obj.kv[k][1] = key}, default)

\* int(x) for a value json.loads produced (TypeError for None, a list, a dict).
JInt(v) ==
    IF v.t \in {"int", "bool", "float"} THEN [ok |-> TRUE, val |-> v.n]
    ELSE IF v.t = "str" THEN PyInt(v.s)
    ELSE NoInt

---------------------------------------------------------------------------
(* parse_vmess and parse_config *)

\* "=" * padding
Pad(k) == [i \in 1..k |-> "="]

\* Lines 191-205: str methods on a value that is no str raise.
VmessFields(server, port, ps) ==
    IF ps.t # "str" \/ server.t # "str" THEN Raised
    ELSE Record("vmess", server.s, JInt(port), ps.s)

\* Lines 189-193: data.get on a value that is no dict raises.
VmessData(data) ==
    IF ~data.ok \/ data.v.t # "obj" THEN Raised
    ELSE VmessFields(JGet(data.v, <<"a", "d", "d">>, JVal("str", <<>>, 0, <<>>)),
                     JGet(data.v, <<"p", "o", "r", "t">>, JVal("int", <<>>, 443, <<>>)),
                     JGet(data.v, <<"p", "s">>, JVal("str", <<>>, 0, <<>>)))

\* Lines 188-189.
VmessDecoded(raw) ==
    IF ~raw.ok THEN Raised
    ELSE VmessData(JsonLoads(Utf8Decode(raw.bytes, "ignore")))

\* Lines 185-187.
VmessPadded(encoded, padding) ==
    VmessDecoded(B64Decode(IF padding # 4 THEN encoded \o Pad(padding) ELSE encoded))

\* Lines 184-205: the body of parse_vmess.
VmessBody(encoded) == VmessPadded(encoded, 4 - (Len(encoded) % 4))

\* Lines 182-208.
parse_vmess(config_str) == Catch(VmessBody(From(config_str, 8)))

SsPrefix == <<"s", "s", ":", "/", "/">>
VlessPrefix == <<"v", "l", "e", "s", "s", ":", "/", "/">>
VmessPrefix == <<"v", "m", "e", "s", "s", ":", "/", "/">>
TrojanPrefix == <<"t", "r", "o", "j", "a", "n", ":", "/", "/">>

\* Lines 246-254.
Dispatch(raw) ==
    IF StartsWith(raw, SsPrefix) THEN parse_ss(raw)
    ELSE IF StartsWith(raw, VlessPrefix) THEN parse_vless(raw)
    ELSE IF StartsWith(raw, VmessPrefix) THEN parse_vmess(raw)
    ELSE IF StartsWith(raw, TrojanPrefix) THEN parse_trojan(raw)
    ELSE NoRecord

\* Lines 244-254.
parse_config(raw) == Dispatch(Strip(raw))

---------------------------------------------------------------------------
(* The decoders' inputs *)

\* Longest text enumerated character by character.
MaxBodyLen == 4
MaxLabelLen == 4

\* All texts over the alphabet A of length at most n.
Texts(A, n) == UNION {[1..k -> A] : k \in 0..n}

UnknownPrefix == <<"h", "t", "t", "p", ":", "/", "/">>
UriPrefixes == {SsPrefix, VlessPrefix, TrojanPrefix, UnknownPrefix}

\* The parts a line "prefix user [@] host [:port] tail [#label]" is assembled
\* from.
AtParts == {<<"@">>, <<>>}
HostParts == {<<"h">>,
     <<"[", ":", ":", "1", "]">>,
     <<" ", "h">>,
     <<>>}
NumericPorts == {<<":", "4", "4", "3">>,
     <<":", "0">>,
     <<":", "6", "5", "5", "3", "6">>,
     <<":", "-", "1">>,
     <<":", "1", "_", "0">>}
NonNumericPorts == {<<":">>,
     <<":", "8", "a">>}
PortParts == {<<>>} \cup NumericPorts \cup NonNumericPorts
TailParts == {<<>>,
     <<"/">>,
     <<"?", "x">>,
     <<"/", "?", "x">>}
FragParts == {<<>>,
     <<"#", "n">>,
     <<"#", "%", "2", "0", "a">>,
     <<"#", "@", "c", ":", ":", "D", "E">>,
     <<"#", "a", "@", "b", ":", "c">>}

\* base64 payloads: plain is the text that was encoded (empty when enc is no
\* base64 at all), wellFormed whether plain is a JSON object (vmess) or a
\* "method:password@host:port" text was encoded (ss).
VmessBlobs == {
    [plain |-> <<"{", "\"", "a", "d", "d", "\"", ":", "\"", "h", "\"", ",", "\"", "p", "o", "r", "t", "\"", ":", "4", "4", "3", ",", "\"", "p", "s", "\"", ":", "\"", "n", "\"", "}">>,
     enc |-> <<"e", "y", "J", "h", "Z", "G", "Q", "i", "O", "i", "J", "o", "I", "i", "w", "i", "c", "G", "9", "y", "d", "C", "I", "6", "N", "D", "Q", "z", "L", "C", "J", "w", "c", "y", "I", "6", "I", "m", "4", "i", "f", "Q">>,
     wellFormed |-> TRUE],
    [plain |-> <<"{", "\"", "a", "d", "d", "\"", ":", "\"", "h", "\"", ",", "\"", "p", "o", "r", "t", "\"", ":", "4", "4", "3", ",", "\"", "p", "s", "\"", ":", "\"", "n", "\"", "}">>,
     enc |-> <<"e", "y", "J", "h", "Z", "G", "Q", "i", "O", "i", "J", "o", "I", "i", "w", "i", "c", "G", "9", "y", "d", "C", "I", "6", "N", "D", "Q", "z", "L", "C", "J", "w", "c", "y", "I", "6", "I", "m", "4", "i", "f", "Q", "=", "=">>,
     wellFormed |-> TRUE],
    [plain |-> <<"{", "\"", "a", "d", "d", "\"", ":", "\"", "h", "\"", "}">>,
     enc |-> <<"e", "y", "J", "h", "Z", "G", "Q", "i", "O", "i", "J", "o", "I", "n", "0">>,
     wellFormed |-> TRUE],
    [plain |-> <<"{", "\"", "a", "d", "d", "\"", ":", "\"", "h", "\"", "}">>,
     enc |-> <<"e", "y", "J", "h", "Z", "G", "Q", "i", "O", "i", "J", "o", "I", "n", "0", "=">>,
     wellFormed |-> TRUE],
    [plain |-> <<"{", "\"", "p", "o", "r", "t", "\"", ":", "\"", "8", "0", "\"", "}">>,
     enc |-> <<"e", "y", "J", "w", "b", "3", "J", "0", "I", "j", "o", "i", "O", "D", "A", "i", "f", "Q">>,
     wellFormed |-> TRUE],
    [plain |-> <<"{", "\"", "p", "o", "r", "t", "\"", ":", "\"", "8", "0", "\"", "}">>,
     enc |-> <<"e", "y", "J", "w", "b", "3", "J", "0", "I", "j", "o", "i", "O", "D", "A", "i", "f", "Q", "=", "=">>,
     wellFormed |-> TRUE],
    [plain |-> <<"{", "\"", "p", "o", "r", "t", "\"", ":", "0", "}">>,
     enc |-> <<"e", "y", "J", "w", "b", "3", "J", "0", "I", "j", "o", "w", "f", "Q">>,
     wellFormed |-> TRUE],
    [plain |-> <<"{", "\"", "p", "o", "r", "t", "\"", ":", "0", "}">>,
     enc |-> <<"e", "y", "J", "w", "b", "3", "J", "0", "I", "j", "o", "w", "f", "Q", "=", "=">>,
     wellFormed |-> TRUE],
    [plain |-> <<"{", "\"", "a", "d", "d", "\"", ":", "\"", "h", "\"", ",", "\"", "p", "o", "r", "t", "\"", ":", "7", "0", "0", "0", "0", "}">>,
     enc |-> <<"e", "y", "J", "h", "Z", "G", "Q", "i", "O", "i", "J", "o", "I", "i", "w", "i", "c", "G", "9", "y", "d", "C", "I", "6", "N", "z", "A", "w", "M", "D", "B", "9">>,
     wellFormed |-> TRUE],
    [plain |-> <<"{", "\"", "a", "d", "d", "\"", ":", "\"", "h", "\"", ",", "\"", "p", "o", "r", "t", "\"", ":", "-", "1", "}">>,
     enc |-> <<"e", "y", "J", "h", "Z", "G", "Q", "i", "O", "i", "J", "o", "I", "i", "w", "i", "c", "G", "9", "y", "d", "C", "I", "6", "L", "T", "F", "9">>,
     wellFormed |-> TRUE],
    [plain |-> <<"{", "}">>,
     enc |-> <<"e", "3", "0">>,
     wellFormed |-> TRUE],
    [plain |-> <<"{", "}">>,
     enc |-> <<"e", "3", "0", "=">>,
     wellFormed |-> TRUE],
    [plain |-> <<"{", "\"", "a", "d", "d", "\"", ":", "1", "}">>,
     enc |-> <<"e", "y", "J", "h", "Z", "G", "Q", "i", "O", "j", "F", "9">>,
     wellFormed |-> TRUE],
    [plain |-> <<"{", "\"", "p", "o", "r", "t", "\"", ":", "n", "u", "l", "l", "}">>,
     enc |-> <<"e", "y", "J", "w", "b", "3", "J", "0", "I", "j", "p", "u", "d", "W", "x", "s", "f", "Q">>,
     wellFormed |-> TRUE],
    [plain |-> <<"{", "\"", "p", "o", "r", "t", "\"", ":", "n", "u", "l", "l", "}">>,
     enc |-> <<"e", "y", "J", "w", "b", "3", "J", "0", "I", "j", "p", "u", "d", "W", "x", "s", "f", "Q", "=", "=">>,
     wellFormed |-> TRUE],
    [plain |-> <<"[", "1", "]">>,
     enc |-> <<"W", "z", "F", "d">>,
     wellFormed |-> FALSE],
    [plain |-> <<"x">>,
     enc |-> <<"e", "A">>,
     wellFormed |-> FALSE],
    [plain |-> <<"x">>,
     enc |-> <<"e", "A", "=", "=">>,
     wellFormed |-> FALSE],
    [plain |-> <<>>,
     enc |-> <<>>,
     wellFormed |-> FALSE],
    [plain |-> <<"{", "\"", "a", "d", "d", "\"", ":", "\"", "h", "\"", ",", "\"", "p", "s", "\"", ":", "\"", "@", "c", ":", ":", "D", "E", "\"", "}">>,
     enc |-> <<"e", "y", "J", "h", "Z", "G", "Q", "i", "O", "i", "J", "o", "I", "i", "w", "i", "c", "H", "M", "i", "O", "i", "J", "A", "Y", "z", "o", "6", "R", "E", "U", "i", "f", "Q">>,
     wellFormed |-> TRUE],
    [plain |-> <<"{", "\"", "a", "d", "d", "\"", ":", "\"", "h", "\"", ",", "\"", "p", "s", "\"", ":", "\"", "@", "c", ":", ":", "D", "E", "\"", "}">>,
     enc |-> <<"e", "y", "J", "h", "Z", "G", "Q", "i", "O", "i", "J", "o", "I", "i", "w", "i", "c", "H", "M", "i", "O", "i", "J", "A", "Y", "z", "o", "6", "R", "E", "U", "i", "f", "Q", "=", "=">>,
     wellFormed |-> TRUE],
    [plain |-> <<"{", "\"", "a", "d", "d", "\"", ":", "\"", "h", "\"", ",", "\"", "p", "o", "r", "t", "\"", ":", "\"", "8", "a", "\"", "}">>,
     enc |-> <<"e", "y", "J", "h", "Z", "G", "Q", "i", "O", "i", "J", "o", "I", "i", "w", "i", "c", "G", "9", "y", "d", "C", "I", "6", "I", "j", "h", "h", "I", "n", "0">>,
     wellFormed |-> TRUE],
    [plain |-> <<"{", "\"", "a", "d", "d", "\"", ":", "\"", "h", "\"", ",", "\"", "p", "o", "r", "t", "\"", ":", "\"", "8", "a", "\"", "}">>,
     enc |-> <<"e", "y", "J", "h", "Z", "G", "Q", "i", "O", "i", "J", "o", "I", "i", "w", "i", "c", "G", "9", "y", "d", "C", "I", "6", "I", "j", "h", "h", "I", "n", "0", "=">>,
     wellFormed |-> TRUE],
    [plain |-> <<"{", "\"", "a", "d", "d", "\"", ":", "\"", "h", "\"", ",">>,
     enc |-> <<"e", "y", "J", "h", "Z", "G", "Q", "i", "O", "i", "J", "o", "I", "i", "w">>,
     wellFormed |-> FALSE],
    [plain |-> <<"{", "\"", "a", "d", "d", "\"", ":", "\"", "h", "\"", ",">>,
     enc |-> <<"e", "y", "J", "h", "Z", "G", "Q", "i", "O", "i", "J", "o", "I", "i", "w", "=">>,
     wellFormed |-> FALSE],
    [plain |-> <<>>,
     enc |-> <<"n", "o", "t", "-", "b", "a", "s", "e", "6", "4", "!", "!">>,
     wellFormed |-> FALSE]
}

SsBlobs == {
    [plain |-> <<"m", ":", "p", "@", "h", ":", "8", "3", "8", "8">>,
     enc |-> <<"b", "T", "p", "w", "Q", "G", "g", "6", "O", "D", "M", "4", "O", "A">>,
     wellFormed |-> TRUE],
    [plain |-> <<"m", ":", "p", "@", "h", ":", "8", "3", "8", "8">>,
     enc |-> <<"b", "T", "p", "w", "Q", "G", "g", "6", "O", "D", "M", "4", "O", "A", "=", "=">>,
     wellFormed |-> TRUE],
    [plain |-> <<"m", ":", "p", "@", "h">>,
     enc |-> <<"b", "T", "p", "w", "Q", "G", "g">>,
     wellFormed |-> TRUE],
    [plain |-> <<"m", ":", "p", "@", "h">>,
     enc |-> <<"b", "T", "p", "w", "Q", "G", "g", "=">>,
     wellFormed |-> TRUE],
    [plain |-> <<"m", "p">>,
     enc |-> <<"b", "X", "A">>,
     wellFormed |-> TRUE],
    [plain |-> <<"m", "p">>,
     enc |-> <<"b", "X", "A", "=">>,
     wellFormed |-> TRUE],
    [plain |-> <<"m", ":", "p", "@", "h", ":", "0">>,
     enc |-> <<"b", "T", "p", "w", "Q", "G", "g", "6", "M", "A">>,
     wellFormed |-> TRUE],
    [plain |-> <<"m", ":", "p", "@", "h", ":", "0">>,
     enc |-> <<"b", "T", "p", "w", "Q", "G", "g", "6", "M", "A", "=", "=">>,
     wellFormed |-> TRUE],
    [plain |-> <<"m", ":", "p", "@", "h", ":", "x">>,
     enc |-> <<"b", "T", "p", "w", "Q", "G", "g", "6", "e", "A">>,
     wellFormed |-> TRUE],
    [plain |-> <<"m", ":", "p", "@", "h", ":", "x">>,
     enc |-> <<"b", "T", "p", "w", "Q", "G", "g", "6", "e", "A", "=", "=">>,
     wellFormed |-> TRUE],
    [plain |-> <<"m", ":", "p", "@", "[", ":", ":", "1", "]", ":", "4", "4", "3">>,
     enc |-> <<"b", "T", "p", "w", "Q", "F", "s", "6", "O", "j", "F", "d", "O", "j", "Q", "0", "M", "w">>,
     wellFormed |-> TRUE],
    [plain |-> <<"m", ":", "p", "@", "[", ":", ":", "1", "]", ":", "4", "4", "3">>,
     enc |-> <<"b", "T", "p", "w", "Q", "F", "s", "6", "O", "j", "F", "d", "O", "j", "Q", "0", "M", "w", "=", "=">>,
     wellFormed |-> TRUE],
    [plain |-> <<>>,
     enc |-> <<>>,
     wellFormed |-> TRUE],
    [plain |-> <<>>,
     enc |-> <<"!", "m", "!">>,
     wellFormed |-> FALSE]
}


Shape(kind, prefix, at, host, port, tail, frag, plain, wellFormed) ==
    [kind |-> kind, prefix |-> prefix, at |-> at, host |-> host, port |-> port,
     tail |-> tail, frag |-> frag, plain |-> plain, wellFormed |-> wellFormed]

NoShape == Shape("none", <<>>, <<>>, <<>>, <<>>, <<>>, <<>>, <<>>, FALSE)

BodyAlphabet == {"u", "@", ":", "1", "[", "]", "#"}
LabelAlphabet == {"a", "@", ":", ">", " "}

CuratedLabels == {<<"M", "y", "N", "o", "d", "e", ":", ":", "D", "E">>,
     <<"@", "m", "y", "c", "h", "a", "n", "n", "e", "l">>,
     <<"u", "s", "e", "r", "@", "h", "o", "s", "t", ":", ":", "U", "S">>,
     <<"T", "e", "l", "e", "g", "r", "a", "m">>,
     <<"x", " ", "t", "e", "l", "@", "y">>,
     <<"T", ".", "M", "E", "/", "x">>,
     <<"%", "4", "0", "x", ":", ":", "U", "S">>}

ProbeIdle ==
    /\ ppc = "idle" /\ pserver = <<>> /\ phost = <<>> /\ penv = <<>>
    /\ pstart = 0 /\ pnow = 0 /\ platency = 0 /\ pret = <<>>

BatchIdle ==
    /\ configs = <<>> /\ bpc = "idle" /\ tstate = <<>> /\ tres = <<>>
    /\ sem = 0 /\ nstarted = 0 /\ results = <<>> /\ db = {}

ParseIdle ==
    /\ task = "idle" /\ inp = <<>> /\ shape = NoShape /\ phase = "in"
    /\ out = NoRecord /\ outV = NoRecord /\ outT = NoRecord

\* A line for parse_config: assembled from parts, a base64 payload behind
\* its prefix, or any short text behind a prefix.
DispatchInput ==
    \/ \E prefix \in UriPrefixes, at \in AtParts, host \in HostParts,
          port \in PortParts, tail \in TailParts, frag \in FragParts :
          /\ inp = prefix \o <<"u">> \o at \o host \o port \o tail \o frag
          /\ shape = Shape("parts", prefix, at, host, port, tail, frag, <<>>, FALSE)
    \/ \E b \in VmessBlobs :
          /\ inp = VmessPrefix \o b.enc
          /\ shape = Shape("blob", VmessPrefix, <<>>, <<>>, <<>>, <<>>, <<>>,
                           b.plain, b.wellFormed)
    \/ \E b \in SsBlobs, frag \in FragParts :
          /\ inp = SsPrefix \o b.enc \o frag
          /\ shape = Shape("blob", SsPrefix, <<>>, <<>>, <<>>, <<>>, frag,
                           b.plain, b.wellFormed)
    \/ \E prefix \in UriPrefixes \cup {VmessPrefix},
          body \in Texts(BodyAlphabet, MaxBodyLen) :
          /\ inp = prefix \o body
          /\ shape = Shape("raw", prefix, <<>>, <<>>, <<>>, <<>>, <<>>, <<>>, FALSE)

\* A body B for parse_vless("vless://" + B) and parse_trojan("trojan://" + B).
DecodersInput ==
    \/ \E at \in AtParts, host \in HostParts, port \in PortParts,
          tail \in TailParts, frag \in FragParts :
          /\ inp = <<"u">> \o at \o host \o port \o tail \o frag
          /\ shape = Shape("parts", <<>>, at, host, port, tail, frag, <<>>, FALSE)
    \/ \E body \in Texts(BodyAlphabet, MaxBodyLen) :
          /\ inp = body
          /\ shape = Shape("raw", <<>>, <<>>, <<>>, <<>>, <<>>, <<>>, <<>>, FALSE)

\* A label for parse_config_name.
LabelInput ==
    /\ inp \in Texts(LabelAlphabet, MaxLabelLen) \cup CuratedLabels
    /\ shape = Shape("label", <<>>, <<>>, <<>>, <<>>, <<>>, <<>>, <<>>, FALSE)

ParseInit ==
    /\ phase = "in"
    /\ out = NoRecord /\ outV = NoRecord /\ outT = NoRecord
    /\ \/ task = "dispatch" /\ DispatchInput
       \/ task = "decoders" /\ DecodersInput
       \/ task = "label" /\ LabelInput
    /\ ProbeIdle /\ BatchIdle

\* fetch_configs line 297: parsed = parse_config(line)
DoParseConfig ==
    /\ task = "dispatch" /\ phase = "in"
    /\ out' = parse_config(inp)
    /\ phase' = "out"
    /\ UNCHANGED <<task, inp, shape, outV, outT, probeVars, batchVars>>

\* parse_vless and parse_trojan on the same body.
DoDecoders ==
    /\ task = "decoders" /\ phase = "in"
    /\ outV' = parse_vless(VlessPrefix \o inp)
    /\ outT' = parse_trojan(TrojanPrefix \o inp)
    /\ phase' = "out"
    /\ UNCHANGED <<task, inp, shape, out, probeVars, batchVars>>

\* parse_config_name on a label.
DoLabel ==
    /\ task = "label" /\ phase = "in"
    /\ out' = parse_config_name(inp)
    /\ phase' = "out"
    /\ UNCHANGED <<task, inp, shape, outV, outT, probeVars, batchVars>>

ParseNext == DoParseConfig \/ DoDecoders \/ DoLabel

ParseSpec == ParseInit /\ [][ParseNext]_vars

---------------------------------------------------------------------------
(* Properties of the decoders (ParseSpec) *)

RecordFields == {"protocol", "server", "port", "name", "country",
                 "telegram_channel", "is_telegram"}

\* A complete record: every field of the dict lines 126-134 build.
IsDecoded(r) ==
    /\ DOMAIN r = RecordFields
    /\ r.protocol \in {"shadowsocks", "vless", "vmess", "trojan"}
    /\ r.port \in Int
    /\ r.is_telegram \in BOOLEAN

Dispatched == task = "dispatch" /\ phase = "out"

\* The malformed lines C5 lists, told by the parts the line was built from.
UnknownPrefixCase == shape.kind \in {"parts", "raw"} /\ shape.prefix = UnknownPrefix
MissingAtCase ==
    shape.kind = "parts" /\ shape.prefix \in {VlessPrefix, TrojanPrefix} /\ shape.at = <<>>
SsNoColonCase ==
    /\ shape.kind = "parts" /\ shape.prefix = SsPrefix /\ shape.at = <<"@">>
    /\ shape.port = <<>> /\ ~Contains(shape.host, <<":">>)
NonNumericPortCase ==
    /\ shape.kind = "parts" /\ shape.prefix \in {SsPrefix, VlessPrefix, TrojanPrefix}
    /\ shape.at = <<"@">> /\ shape.port \in NonNumericPorts
UndecodableCase == shape.kind = "blob" /\ ~shape.wellFormed

MalformedCase ==
    \/ UnknownPrefixCase
    \/ MissingAtCase
    \/ SsNoColonCase
    \/ NonNumericPortCase
    \/ UndecodableCase

\* C5: decoding is fail-closed.  For every line, parse_config returns a
\* complete record or no record and never raises; a line with an unknown
\* prefix, without the "@" vless and trojan require, with a shadowsocks host
\* part without ":", with a non-numeric port, or with an undecodable
\* base64/JSON payload yields no record.
C5_FailClosed ==
    Dispatched =>
        /\ out # Raised
        /\ out = NoRecord \/ IsDecoded(out)
        /\ MalformedCase => out = NoRecord

\* C5's case: a vless line with a non-numeric port went through parse_config
\* (int() raised inside the decoder) and no record came back.
C5_Witness ==
    /\ Dispatched
    /\ shape.kind = "parts" /\ shape.prefix = VlessPrefix /\ shape.at = <<"@">>
    /\ shape.port = <<":", "8", "a">>
    /\ out = NoRecord

\* C6: every record parse_config produces has a port in [1, 65535]; a line
\* whose port text is an integer outside that range produces no record.
C6_PortInRange ==
    (Dispatched /\ out # NoRecord) => (out.port >= 1 /\ out.port <= 65535)

SameRecord(a, b) ==
    /\ a.server = b.server
    /\ a.port = b.port
    /\ a.name = b.name
    /\ a.country = b.country
    /\ a.telegram_channel = b.telegram_channel
    /\ a.is_telegram = b.is_telegram

\* C7: for every body B, parse_trojan("trojan://" + B) and
\* parse_vless("vless://" + B) both yield no record, or both yield records
\* with the same server, port, name, country, telegram_channel and
\* is_telegram.
C7_DecodersAgree ==
    (task = "decoders" /\ phase = "out") =>
        \/ outV = NoRecord /\ outT = NoRecord
        \/ outV # NoRecord /\ outT # NoRecord /\ SameRecord(outV, outT)

\* What C8 says parse_config_name returns for a percent-decoded label.
ClaimedWorkingName(label) ==
    IF Contains(label, <<":", ":">>) THEN RSplitLast(label, <<":", ":">>)[1] ELSE label
ClaimedName(label) == Strip(Remove(ClaimedWorkingName(label), <<">", ">">>))
ClaimedChannel(name) ==
    IF StartsWith(name, <<"@">>) THEN name
    ELSE IF \E tag \in TelegramTags : Contains(Lower(name), tag) THEN name
    ELSE IF Contains(name, <<"@">>)
    THEN Strip(SplitFirst(From(name, SetMin(Occurrences(name, <<"@">>)) - 1),
                          <<":">>)[1])
    ELSE None

\* C8: for every percent-decoded label, parse_config_name returns name = the
\* working name with every ">>" removed and surrounding whitespace trimmed,
\* and classifies by the ordered cascade on that returned name: (a) it
\* starts with "@", (b) its lowercase holds "telegram", "tel@" or "t.me/":
\* is_telegram and telegram_channel = name; (c) it holds "@": is_telegram
\* and telegram_channel = the text from the first "@", cut at the first ":"
\* and trimmed; (d) otherwise not telegram and no channel.
C8_LabelCascade ==
    (task = "label" /\ phase = "out" /\ ~Contains(inp, <<"%">>)) =>
        /\ out.name = ClaimedName(inp)
        /\ out.telegram_channel = ClaimedChannel(out.name)
        /\ out.is_telegram = (ClaimedChannel(out.name) # None)

---------------------------------------------------------------------------
(* test_tcp_connection (ProbeSpec) *)

\* The clock counts hundredths of a millisecond.  timeout = 3.0 seconds.
Timeout == 3 * 100000

\* What a probe returns on any fault (line 274).
ProbeFailed == <<FALSE, -1>>

\* round(latency, 1), in tenths of a millisecond: the nearest tenth; for a
\* latency half way between two tenths the float's binary expansion decides,
\* so either neighbour may come out.
Round1(t) ==
    IF t % 10 < 5 THEN {t \div 10}
    ELSE IF t % 10 > 5 THEN {t \div 10 + 1}
    ELSE {t \div 10, t \div 10 + 1}

\* Server arguments: host names, bracketed IPv6 literals, and None (a JSON
\* null that test_one passes on).
ProbeServers ==
    {<<"h">>, <<"[", ":", ":", "1", "]">>, <<"[", "[", "h", "]">>, <<"]", "h", "[">>, None}

\* How long the connection takes to come up, when it does.
ConnectDelays == {0, 4, 15, 1234, Timeout}

\* What the network and the transport do for one probe: whether and when
\* the connection comes up, and whether writer.close() and
\* writer.wait_closed() raise.
ProbeEnvs ==
    [connect : {"ok"}, delay : ConnectDelays,
     closeRaises : BOOLEAN, waitRaises : BOOLEAN]
    \cup [connect : {"refused", "gaierror", "timeout"}, delay : {4},
          closeRaises : {FALSE}, waitRaises : {FALSE}]

ProbeInit ==
    /\ ppc = "called"
    /\ pserver \in ProbeServers
    /\ penv \in ProbeEnvs
    /\ pnow \in {0, 7}
    /\ phost = <<>> /\ pstart = 0 /\ platency = 0 /\ pret = <<>>
    /\ ParseIdle /\ BatchIdle

\* Lines 258-264, up to the await: server.strip("[]") raises AttributeError
\* for None, which the except clause of line 272 turns into (False, -1).
ProbeCall ==
    /\ ppc = "called"
    /\ IF pserver = None
       THEN /\ pret' = ProbeFailed
            /\ ppc' = "returned"
            /\ UNCHANGED <<phost, pstart>>
       ELSE /\ phost' = StripSet(pserver, {"[", "]"})
            /\ pstart' = pnow
            /\ ppc' = "connecting"
            /\ UNCHANGED pret
    /\ UNCHANGED <<pserver, penv, pnow, platency, parseVars, batchVars>>

\* The connection took the whole timeout or failed before it.
ConnectInTime == penv.connect = "ok" /\ penv.delay < Timeout

\* Line 264 raising (TimeoutError, ConnectionRefusedError, gaierror), then
\* lines 272-274.
ProbeConnectFails ==
    /\ ppc = "connecting"
    /\ ~ConnectInTime
    /\ pnow' = pnow + (IF penv.connect \in {"ok", "timeout"} THEN Timeout ELSE penv.delay)
    /\ pret' = ProbeFailed
    /\ ppc' = "returned"
    /\ UNCHANGED <<pserver, phost, penv, pstart, platency, parseVars, batchVars>>

\* Lines 264-268, up to the await: the latency is taken, then writer.close()
\* runs outside the inner try, so its raising reaches line 272.
ProbeConnected ==
    /\ ppc = "connecting"
    /\ ConnectInTime
    /\ pnow' = pnow + penv.delay
    /\ platency' = pnow' - pstart
    /\ IF penv.closeRaises
       THEN pret' = ProbeFailed /\ ppc' = "returned"
       ELSE pret' = pret /\ ppc' = "closing"
    /\ UNCHANGED <<pserver, phost, penv, pstart, parseVars, batchVars>>

\* Lines 267-271: wait_closed() returned or raised; either way the result.
ProbeClosed ==
    /\ ppc = "closing"
    /\ \E l \in Round1(platency) : pret' = <<TRUE, l>>
    /\ ppc' = "returned"
    /\ UNCHANGED <<pserver, phost, penv, pstart, pnow, platency, parseVars, batchVars>>

ProbeNext == ProbeCall \/ ProbeConnectFails \/ ProbeConnected \/ ProbeClosed

ProbeSpec == ProbeInit /\ [][ProbeNext]_vars

\* C9: once the connection is established within the timeout, the probe
\* returns (true, latency) whatever happens while the connection is
\* released: a fault of writer.close() or of writer.wait_closed() neither
\* reaches the caller nor turns the result into (false, -1).
C9_ReleaseFaultHarmless ==
    (ppc = "returned" /\ pserver # None /\ ConnectInTime) =>
        (pret[1] = TRUE /\ pret[2] \in Round1(platency))

---------------------------------------------------------------------------
(* test_batch (Spec, LiveSpec) *)

\* asyncio.Semaphore(10)
Capacity == 10

MaxBatch == 12

JText(str) == JVal("str", str, 0, <<>>)
JNumber(n) == JVal("int", <<>>, n, <<>>)

IdKey == <<"i", "d">>
ServerKey == <<"s", "e", "r", "v", "e", "r">>
PortKey == <<"p", "o", "r", "t">>

\* The host that accepts connections, and one that refuses them.
UpHost == <<"u", "p">>
DownHost == <<"d", "n">>

IdText(i) == <<"c", Digits[(i \div 10) + 1], Digits[(i % 10) + 1]>>

\* The members of one record of req.configs: a reachable server, an
\* unreachable one, a record without a server, one whose server is null,
\* one whose port is text.
ServerMember(kind) ==
    IF kind = "noserver" THEN <<>>
    ELSE IF kind = "nullserver" THEN << <<ServerKey, JNull>> >>
    ELSE IF kind = "down" THEN << <<ServerKey, JText(DownHost)>> >>
    ELSE << <<ServerKey, JText(UpHost)>> >>

PortMember(kind) ==
    IF kind = "badport" THEN << <<PortKey, JText(<<"a", "b", "c">>)>> >>
    ELSE << <<PortKey, JNumber(443)>> >>

Cfg(i, kind) ==
    JVal("obj", <<>>, 0,
         << <<IdKey, JText(IdText(i))>> >> \o ServerMember(kind) \o PortMember(kind))

CfgKinds == {"up", "down", "noserver", "nullserver", "badport"}

\* A batch of n records, all reachable but the one at pos.
Batch(n, pos, kind) == [i \in 1..n |-> Cfg(i, IF i = pos THEN kind ELSE "up")]

Batches ==
    UNION {{Batch(n, pos, kind) : pos \in {1, n}, kind \in CfgKinds} : n \in 0..MaxBatch}

\* What test_tcp_connection returns for a record's server and port in this
\* network: the latency (in tenths of a millisecond) of the host that is
\* up, (False, -1) for everything else, a server or port of the wrong type
\* included (lines 272-274).
ProbeOutcome(server, port) ==
    IF server.t = "str" /\ port.t = "int" /\ StripSet(server.s, {"[", "]"}) = UpHost
    THEN <<TRUE, 125>>
    ELSE ProbeFailed

\* TestResult(...) for a record whose fields do not validate.
ValidationError == [kind |-> "ValidationError"]
NoResult == [kind |-> "none"]

\* The fields TestResult declares as str and int: pydantic rejects None for
\* a str and a text that is no number for an int.
StrField(v) == v.t = "str"
IntField(v) == JInt(v).ok

TestResult(config_id, server, port, outcome) ==
    IF StrField(config_id) /\ StrField(server) /\ IntField(port)
    THEN [kind |-> "result", config_id |-> config_id.s, server |-> server.s,
          port |-> JInt(port).val, success |-> outcome[1], latency_ms |-> outcome[2]]
    ELSE ValidationError

TestOneResult(cfg, server, port) ==
    TestResult(JGet(cfg, IdKey, JText(<<>>)), server, port, ProbeOutcome(server, port))

\* test_one(cfg), lines 323-339.
test_one(cfg) ==
    TestOneResult(cfg, JGet(cfg, ServerKey, JText(<<>>)), JGet(cfg, PortKey, JNumber(443)))

\* Whether test_tcp_connection suspends for this record: server.strip of
\* line 259 raises for a server that is no text, and the probe then returns
\* without reaching the await of line 264.
Awaits(cfg) == JGet(cfg, ServerKey, JText(<<>>)).t = "str"

\* A semaphore that grants a slot whatever its value.
SlotFreeAlways(value) == TRUE

\* Semaphore.acquire grants a slot when the value is positive.
SlotFree(value) == value > 0

\* An exit that keeps the slot.
NotReleased(value) == value

\* Semaphore.release, on every exit of the async with block.
Released(value) == value + 1

\* A collection that keeps the successful probes only.
GatheredSuccessful(task_results) == SelectSeq(task_results, LAMBDA r : r.success)

\* asyncio.gather hands back the tasks' results in the order of the tasks.
Gathered(task_results) == task_results

\* update_one(..., upsert=True) for each result in turn.
RECURSIVE SaveAll(_, _)
SaveAll(saved, rs) ==
    IF rs = <<>> THEN saved
    ELSE SaveAll({x \in saved : x.config_id # rs[1].config_id} \cup {rs[1]}, Tail(rs))

\* Before the call: nothing of the batch exists but the request.
NotCalled ==
    /\ bpc = "idle" /\ tstate = <<>> /\ tres = <<>>
    /\ sem = 0 /\ nstarted = 0 /\ results = <<>> /\ db = {}
    /\ ParseIdle /\ ProbeIdle

Init == configs \in Batches /\ NotCalled

\* The batches whose every behaviour is followed to its end: the empty one,
\* a single record, and one that overfills the gate.
MaxLiveBatch == 11

LiveBatches ==
    UNION {{Batch(n, n, kind) : kind \in CfgKinds} : n \in {0, 1, MaxLiveBatch}}
        \cup {Batch(MaxLiveBatch, 1, "nullserver")}

LiveInit == configs \in LiveBatches /\ NotCalled

\* Lines 321-349 up to the await: the semaphore and one task per record.
CallBatch ==
    /\ bpc = "idle"
    /\ bpc' = "joining"
    /\ sem' = Capacity
    /\ tstate' = [i \in 1..Len(configs) |-> "new"]
    /\ tres' = [i \in 1..Len(configs) |-> NoResult]
    /\ UNCHANGED <<configs, nstarted, results, db, parseVars, probeVars>>

\* A task leaves limited_test: with its TestResult or with the exception.
Finished(i, r) ==
    /\ tstate' = [tstate EXCEPT ![i] = IF r = ValidationError THEN "failed" ELSE "done"]
    /\ tres' = [tres EXCEPT ![i] = r]

\* A task has its slot (value is the semaphore after the acquire): it runs
\* test_one up to the await inside the probe, or to its end when the probe
\* does not suspend, and then leaves the async with block.
Enter(i, value) ==
    IF Awaits(configs[i])
    THEN /\ tstate' = [tstate EXCEPT ![i] = "connecting"]
         /\ sem' = value
         /\ UNCHANGED tres
    ELSE /\ Finished(i, test_one(configs[i]))
         /\ sem' = Released(value)

\* The first step of task i (line 345): the tasks start in the order gather
\* was given them, before any of them is resumed.
FirstStep(i) ==
    /\ bpc = "joining"
    /\ i = nstarted + 1
    /\ nstarted' = i
    /\ IF SlotFree(sem)
       THEN Enter(i, sem - 1)
       ELSE /\ tstate' = [tstate EXCEPT ![i] = "waiting"]
            /\ UNCHANGED <<sem, tres>>
    /\ UNCHANGED <<configs, bpc, results, db, parseVars, probeVars>>

\* The semaphore wakes its longest-waiting task once a slot is free.
Admit(i) ==
    /\ nstarted = Len(configs)
    /\ tstate[i] = "waiting"
    /\ \A j \in 1..(i - 1) : tstate[j] # "waiting"
    /\ SlotFree(sem)
    /\ Enter(i, sem - 1)
    /\ UNCHANGED <<configs, bpc, nstarted, results, db, parseVars, probeVars>>

\* The probe of task i resolves: lines 326-339, then the slot is released.
Resolve(i) ==
    /\ nstarted = Len(configs)
    /\ tstate[i] = "connecting"
    /\ Finished(i, test_one(configs[i]))
    /\ sem' = Released(sem)
    /\ UNCHANGED <<configs, bpc, nstarted, results, db, parseVars, probeVars>>

\* Lines 349-362: gather's future has every task's result.
ReturnBatch ==
    /\ bpc = "joining"
    /\ nstarted = Len(configs)
    /\ \A i \in 1..Len(configs) : tstate[i] = "done"
    /\ results' = Gathered(tres)
    /\ db' = SaveAll(db, results')
    /\ bpc' = "returned"
    /\ UNCHANGED <<configs, tstate, tres, sem, nstarted, parseVars, probeVars>>

\* Line 349: gather passes on the first exception of a task as soon as the
\* task has ended; the other tasks go on.
RaiseBatch ==
    /\ bpc = "joining"
    /\ nstarted = Len(configs)
    /\ \E i \in 1..Len(configs) : tstate[i] = "failed"
    /\ bpc' = "raised"
    /\ UNCHANGED <<configs, tstate, tres, sem, nstarted, results, db, parseVars, probeVars>>

Next ==
    \/ CallBatch
    \/ \E i \in 1..Len(configs) : FirstStep(i)
    \/ \E i \in 1..Len(configs) : Admit(i)
    \/ \E i \in 1..Len(configs) : Resolve(i)
    \/ ReturnBatch
    \/ RaiseBatch

Spec == Init /\ [][Next]_vars

\* The event loop runs every callback that is ready.
LiveSpec == LiveInit /\ [][Next]_vars /\ WF_vars(Next)

---------------------------------------------------------------------------
(* Properties of the batch (Spec, LiveSpec) *)

Tasks == DOMAIN tstate
InFlight == {i \in Tasks : tstate[i] = "connecting"}
Waiting == {i \in Tasks : tstate[i] = "waiting"}
AllEnded == \A i \in Tasks : tstate[i] \in {"done", "failed"}

\* C1: at no moment are more than 10 probes of one batch in flight: a probe
\* starts only while it holds one of the 10 slots, so an 11th waits until a
\* slot is released.
C1_AtMostTenInFlight ==
    /\ Cardinality(InFlight) <= Capacity
    /\ bpc # "idle" => sem = Capacity - Cardinality(InFlight)
    /\ Waiting # {} => nstarted < Len(configs) \/ sem + Cardinality(InFlight) = Capacity

\* Ten probes in flight while another task waits for a slot.
C1_Witness == Cardinality(InFlight) = Capacity /\ Waiting # {}

\* C2: a batch of N records returns exactly N results, the result at
\* position i carrying the config_id of the record at position i, with no
\* id missing or repeated, whatever order the probes complete in.
C2_ResultsMatchRecords ==
    bpc = "returned" =>
        /\ Len(results) = Len(configs)
        /\ \A i \in 1..Len(configs) :
               i <= Len(results) /\ results[i].config_id = JGet(configs[i], IdKey, JText(<<>>)).s
        /\ Cardinality({results[i].config_id : i \in 1..Len(results)}) = Len(configs)

\* A batch larger than the gate returned, one of its probes having failed.
C2_Witness ==
    /\ bpc = "returned"
    /\ Len(results) > Capacity
    /\ \E i \in 1..Len(results) : ~results[i].success

\* C3: test_batch neither returns nor raises while a probe of the batch is
\* still waiting for a slot or in flight.
C3_EndsAfterAllProbes == bpc \in {"returned", "raised"} => AllEnded

\* C4: test_batch never raises because of a malformed record: a record
\* whose id, server or port is missing or of the wrong type yields a result
\* with success false and latency -1.
C4_NeverRaises ==
    /\ bpc # "raised"
    /\ \A i \in Tasks : tstate[i] # "failed"

BatchOver == bpc \in {"returned", "raised"} /\ AllEnded /\ sem = Capacity
AllResolved == bpc # "idle" /\ nstarted = Len(configs) /\ \A i \in Tasks : tstate[i] = "done"

\* C10: every call of test_batch comes to its end: every task is admitted
\* through the gate and ends, every slot taken is given back on every exit
\* of the probe, and the batch returns once every probe has resolved.
C10_BatchCompletes ==
    /\ <>BatchOver
    /\ AllResolved ~> (bpc = "returned")

\* A batch larger than the gate has returned with every slot given back.
C10_Witness ==
    /\ bpc = "returned" /\ Len(configs) > Capacity
    /\ AllEnded /\ sem = Capacity /\ Waiting = {}

===========================================================================
